---- MODULE Spec2Model ----
(***************************************************************************)
(* A model of the brainfuck interpreter of src/src/main.rs: lex, parse,    *)
(* State::new, run and main.                                               *)
(*                                                                         *)
(* A Rust String is modelled as the sequence of its UTF-8 bytes, because   *)
(* parse slices the source text by byte offsets while it counts tokens and *)
(* chars.  Every one-byte char is a one-letter string; the two-byte char   *)
(* e-acute is the byte pair "C3" "A9".                                     *)
(***************************************************************************)
EXTENDS Integers, Sequences, FiniteSets, TLC

VARIABLES
    contents,   \* main: the source text (a byte sequence)
    pc,         \* where the process is: "start"/"parsed" (parse alone),
                \* "main", "run", "done", "panic" (the whole program),
                \* "ready"/"read" (one read-input alone)
    result,     \* the outcome of parse(contents)
    stack,      \* the run invocations in progress, outermost first; each a State
                \* with the position of its iterator
    out,        \* the bytes written to stdout
    line,       \* the last line read from stdin
    nread,      \* how many lines have been read from stdin
    refData,    \* the tape of the reference interpreter (one live tape)
    refPointer, \* the pointer of the reference interpreter
    refOut,     \* the output of the reference interpreter
    buffer,     \* the bytes in the buffer of stdout, printed and not yet written
    tightData,    \* the tape of the interpreter that grows the tape only at its end
    tightPointer, \* the pointer of that interpreter
    tightOut      \* the output of that interpreter

vars ==
    <<contents, pc, result, stack, out, line, nread, refData, refPointer, refOut,
      buffer, tightData, tightPointer, tightOut>>

(***************************************************************************)
(* Bounds.                                                                 *)
(***************************************************************************)
\* the longest source text given to parse alone, in chars
MaxLen == 4
\* the longest enumerated program that is run, in chars
MaxProg == 4
\* the longest tape: an instruction that would grow the tape beyond it is not taken
MaxTape == 8
\* the most bytes written to stdout: a write-output beyond it is not taken
MaxOut == 3
\* the most lines read from stdin: a read-input beyond it is not taken
MaxReads == 3
\* the longest source text of brackets, one instruction and one comment char
\* given to parse alone, in chars
MaxDeep == 6
\* the longest input line, in chars
MaxLine == 3

(***************************************************************************)
(* Strings.                                                                *)
(***************************************************************************)
LeadByte == "C3"
ContByte == "A9"

\* the chars of the model's alphabet, each as its UTF-8 bytes
InstrChars == {"+", "-", "<", ">", ",", ".", "[", "]"}
EAcute == <<LeadByte, ContByte>>
CommentChars == {<<"a">>, EAcute}
AllChars == {<<c>> : c \in InstrChars} \cup CommentChars

RECURSIVE Flatten(_)
Flatten(ss) == IF ss = <<>> THEN <<>> ELSE Head(ss) \o Flatten(Tail(ss))

\* every string of at most n chars over the chars cs
StringsOver(cs, n) == {Flatten(f) : f \in UNION {[1..k -> cs] : k \in 0..n}}

\* str::is_char_boundary, n a byte offset from 0
IsCharBoundary(s, n) ==
    \/ n = 0
    \/ n = Len(s)
    \/ n < Len(s) /\ s[n + 1] # ContByte

IsLead(b) == b # ContByte

\* str::chars: one element per char (its first byte)
CharsOf(s) == SelectSeq(s, IsLead)

(***************************************************************************)
(* Token, SyntaxItem.                                                      *)
(***************************************************************************)
Token ==
    {"Increment", "Decrement", "ShiftLeft", "ShiftRight", "Input", "Output",
     "BeginLoop", "EndLoop"}

Single(t) == [kind |-> "Single", token |-> t, body |-> <<>>]
Loop(v) == [kind |-> "Loop", token |-> "none", body |-> v]

(***************************************************************************)
(* lex.                                                                    *)
(***************************************************************************)
IsInstr(c) == c \in InstrChars

TokenOf(c) ==
    CASE c = "+" -> "Increment"
      [] c = "-" -> "Decrement"
      [] c = "<" -> "ShiftLeft"
      [] c = ">" -> "ShiftRight"
      [] c = "," -> "Input"
      [] c = "." -> "Output"
      [] c = "[" -> "BeginLoop"
      [] c = "]" -> "EndLoop"

lex(input) ==
    LET cs == SelectSeq(CharsOf(input), IsInstr)
    IN  [k \in 1..Len(cs) |-> TokenOf(cs[k])]

(***************************************************************************)
(* parse.  Its outcome is Ok(tree) or a panic; the function's type also    *)
(* allows Err(message), which no path of the code builds.                  *)
(***************************************************************************)
Ok(tree) == [tag |-> "Ok", tree |-> tree]
Panic == [tag |-> "Panic", tree |-> <<>>]

\* a scan that ends at the first "]", whatever was opened before it
RECURSIVE ScanFirstClose(_, _, _, _)
ScanFirstClose(cs, j, counter, index) ==
    IF j > Len(cs)
    THEN [counter |-> counter, index |-> index]
    ELSE IF cs[j] = "]"
         THEN [counter |-> 0, index |-> index + 1]
         ELSE ScanFirstClose(cs, j + 1, counter, index + 1)

\* lines 70-83: the scan for the closing bracket over the chars cs of inner,
\* from char j on; gives the counter and the index the loop ends with
RECURSIVE ScanBrackets(_, _, _, _)
ScanBrackets(cs, j, counter, index) ==
    IF j > Len(cs)
    THEN [counter |-> counter, index |-> index]
    ELSE LET c == cs[j]
             counter1 == IF c = "[" THEN counter + 1
                         ELSE IF c = "]" THEN counter - 1
                         ELSE counter
         IN  IF counter1 = 0
             THEN [counter |-> counter1, index |-> index + 1]
             ELSE ScanBrackets(cs, j + 1, counter1, index + 1)

\* a skip of one token too many
SkipCountPlusOne(index) == index + 1

\* line 98: how many tokens the outer iterator skips after a loop
SkipCount(index) == index

\* line 68: where inner starts, as a byte offset into input, for token number i
InnerStart(i) == i + 1

\* a push that keeps the closing bracket as a leaf
PushLeafAlways(tree, token) == Append(tree, Single(token))

\* lines 102-103: a closing bracket is passed over, any other token that is
\* not an opening bracket is pushed as a leaf
PushLeaf(tree, token) ==
    IF token = "EndLoop" THEN tree ELSE Append(tree, Single(token))

RECURSIVE parse(_), ParseFrom(_, _, _, _)
\* the while loop of lines 64-105, with i the number of the next token of the
\* iterator (from 0) and tree the items pushed so far
ParseFrom(input, tokens, i, tree) ==
    IF i >= Len(tokens)
    THEN Ok(tree)
    ELSE LET token == tokens[i + 1]
         IN  CASE token = "BeginLoop" ->
                    IF ~IsCharBoundary(input, InnerStart(i))
                    THEN Panic
                    ELSE LET inner == SubSeq(input, InnerStart(i) + 1, Len(input))
                             scan == ScanBrackets(CharsOf(inner), 1, 1, 0)
                         IN  IF scan.counter # 0
                             THEN Panic
                             ELSE IF ~IsCharBoundary(inner, scan.index)
                             THEN Panic
                             ELSE LET item == parse(SubSeq(inner, 1, scan.index))
                                  IN  IF item.tag # "Ok"
                                      THEN Panic
                                      ELSE ParseFrom(input, tokens,
                                                     i + 1 + SkipCount(scan.index),
                                                     Append(tree, Loop(item.tree)))
               [] OTHER -> ParseFrom(input, tokens, i + 1, PushLeaf(tree, token))

parse(input) == ParseFrom(input, lex(input), 0, <<>>)

NoResult == [tag |-> "None", tree |-> <<>>]

(***************************************************************************)
(* parse alone: the source text is any string of at most MaxLen chars.     *)
(***************************************************************************)
DeepChars == {<<"[">>, <<"]">>, <<"+">>, <<"a">>}
ParseTexts == StringsOver(AllChars, MaxLen) \cup StringsOver(DeepChars, MaxDeep)

InitParse ==
    /\ contents \in ParseTexts
    /\ pc = "start"
    /\ result = NoResult
    /\ stack = <<>>
    /\ out = <<>>
    /\ line = <<>>
    /\ nread = 0
    /\ refData = <<0>>
    /\ refPointer = 0
    /\ refOut = <<>>
    /\ buffer = <<>>
    /\ tightData = <<0>>
    /\ tightPointer = 0
    /\ tightOut = <<>>

ParseText ==
    /\ pc = "start"
    /\ result' = parse(contents)
    /\ pc' = "parsed"
    /\ UNCHANGED <<contents, stack, out, line, nread, refData, refPointer, refOut,
                   buffer, tightData, tightPointer, tightOut>>

SpecParse == InitParse /\ [][ParseText]_vars

(***************************************************************************)
(* State and the tape instructions of run.  The pointer counts from 0.     *)
(***************************************************************************)
\* State::new
StateNew(commands) == [data |-> <<0>>, pointer |-> 0, commands |-> commands]

\* state.data[state.pointer]
Cell(s) == s.data[s.pointer + 1]

SetCell(s, v) == [s EXCEPT !.data[s.pointer + 1] = v]

\* the largest value of a cell
U8Max == 255

\* Increment that stays at the largest value
IncrementSaturates(s) == IF Cell(s) = 255 THEN s ELSE SetCell(s, Cell(s) + 1)

\* lines 117-123
Increment(s) == IF Cell(s) = 255 THEN SetCell(s, 0) ELSE SetCell(s, Cell(s) + 1)

\* lines 124-130
Decrement(s) == IF Cell(s) = 0 THEN SetCell(s, 255) ELSE SetCell(s, Cell(s) - 1)

\* ShiftLeft with the new cell put at the wrong end of the tape
ShiftLeftAppends(s) ==
    IF s.pointer > 0
    THEN [s EXCEPT !.pointer = s.pointer - 1]
    ELSE [s EXCEPT !.data = Append(s.data, 0)]

\* lines 131-137
ShiftLeft(s) ==
    IF s.pointer > 0
    THEN [s EXCEPT !.pointer = s.pointer - 1]
    ELSE [s EXCEPT !.data = <<0>> \o s.data]

\* ShiftRight without the push of line 139
\* a pointer-right that puts the new cell right after the current one
ShiftRightInserts(s) ==
    [s EXCEPT !.data = SubSeq(s.data, 1, s.pointer + 1) \o <<0>>
                          \o SubSeq(s.data, s.pointer + 2, Len(s.data)),
              !.pointer = s.pointer + 1]

ShiftRightNoPush(s) == [s EXCEPT !.pointer = s.pointer + 1]

\* lines 138-141
ShiftRight(s) == [s EXCEPT !.data = Append(s.data, 0), !.pointer = s.pointer + 1]

\* the match of lines 116-171 for the tokens that touch the tape only
ExecToken(t, s) ==
    CASE t = "Increment" -> Increment(s)
      [] t = "Decrement" -> Decrement(s)
      [] t = "ShiftLeft" -> ShiftLeft(s)
      [] t = "ShiftRight" -> ShiftRight(s)
      [] t = "BeginLoop" -> s
      [] t = "EndLoop" -> s

\* whether the instruction makes the tape longer
Grows(t, s) == t = "ShiftRight" \/ (t = "ShiftLeft" /\ s.pointer = 0)

(***************************************************************************)
(* read-input.  A line is the sequence of its chars' code points.          *)
(***************************************************************************)
\* char::is_whitespace (the Unicode White_Space property), which str::trim strips
IsWhitespace(c) ==
    \/ c \in 9..13
    \/ c \in {32, 133, 160, 5760, 8232, 8233, 8239, 8287, 12288}
    \/ c \in 8192..8202

RECURSIVE TrimStart(_)
TrimStart(l) ==
    IF l # <<>> /\ IsWhitespace(Head(l)) THEN TrimStart(Tail(l)) ELSE l

RECURSIVE TrimEnd(_)
TrimEnd(l) ==
    IF l # <<>> /\ IsWhitespace(l[Len(l)]) THEN TrimEnd(SubSeq(l, 1, Len(l) - 1)) ELSE l

\* str::trim
Trim(l) == TrimEnd(TrimStart(l))

IsDigit(c) == c \in 48..57

\* the value of a string of decimal digits
RECURSIVE DigitsValue(_)
DigitsValue(ds) ==
    IF ds = <<>> THEN 0
    ELSE 10 * DigitsValue(SubSeq(ds, 1, Len(ds) - 1)) + (ds[Len(ds)] - 48)

\* the digits that u8's from_str reads: the string after one optional '+'
SignedDigits(t) == IF t # <<>> /\ t[1] = 43 THEN Tail(t) ELSE t

\* parse::<u8> with a wrapping conversion in place of the overflow error
ParseU8Wraps(t) ==
    LET ds == SignedDigits(t)
    IN  IF ds = <<>> THEN -1
        ELSE IF \E k \in 1..Len(ds) : ~IsDigit(ds[k]) THEN -1
        ELSE DigitsValue(ds) % 256

\* str::parse::<u8>: the value, or -1 for Err
ParseU8(t) ==
    LET ds == SignedDigits(t)
    IN  IF ds = <<>> THEN -1
        ELSE IF \E k \in 1..Len(ds) : ~IsDigit(ds[k]) THEN -1
        ELSE IF DigitsValue(ds) > 255 THEN -1
        ELSE DigitsValue(ds)

\* c as u8
CharAsU8(c) == c % 256

\* read-input that takes a line with nothing on it for the number 0
ExecInputEmptyIsZero(s, l) ==
    LET trim == Trim(l)
        i == ParseU8(trim)
    IN  IF i # -1 THEN [panic |-> FALSE, state |-> SetCell(s, i)]
        ELSE IF trim # <<>> THEN [panic |-> FALSE, state |-> SetCell(s, CharAsU8(trim[1]))]
        ELSE [panic |-> FALSE, state |-> SetCell(s, 0)]

\* lines 142-164, for the line l that read_line gave: the state after them, and
\* whether they panicked
ExecInput(s, l) ==
    LET trim == Trim(l)
        i == ParseU8(trim)
    IN  IF i # -1 THEN [panic |-> FALSE, state |-> SetCell(s, i)]
        ELSE IF trim # <<>> THEN [panic |-> FALSE, state |-> SetCell(s, CharAsU8(trim[1]))]
        ELSE [panic |-> TRUE, state |-> s]

(***************************************************************************)
(* write-output: print! writes the cell as a char, that is as the UTF-8    *)
(* encoding of the code point equal to the cell.                           *)
(***************************************************************************)
\* line 166: the bytes that print! formats for the cell value v
ExecOutput(v) == IF v < 128 THEN <<v>> ELSE <<192 + (v \div 64), 128 + (v % 64)>>

\* stdout: the bytes written to the terminal and the bytes still in its buffer
Stdout == [written |-> out, buffer |-> buffer]

\* line 166: print! hands the bytes to stdout, which is line buffered: it
\* writes at once when they hold a newline and keeps them in its buffer else
StdoutPrint(o, bytes) ==
    IF \E k \in 1..Len(bytes) : bytes[k] = 10
    THEN [written |-> o.written \o o.buffer \o bytes, buffer |-> <<>>]
    ELSE [written |-> o.written, buffer |-> o.buffer \o bytes]

\* a flush that writes nothing
StdoutFlushNothing(o) == o

\* line 167: stdout().flush()
StdoutFlush(o) == [written |-> o.written \o o.buffer, buffer |-> <<>>]

(***************************************************************************)
(* run.  stack[k + 1] is the State s of the loop that stack[k] is          *)
(* executing; "it" counts the commands its iterator has yielded; mode is   *)
(* "run" inside a call of run on the State and "idle" between two calls.   *)
(***************************************************************************)
Frame(s, mode) ==
    [data |-> s.data, pointer |-> s.pointer, commands |-> s.commands,
     it |-> 0, mode |-> mode]

Top == stack[Len(stack)]
Caller == stack[Len(stack) - 1]

Running == pc = "run" /\ stack # <<>> /\ Top.mode = "run"
AtCommand == Running /\ Top.it < Len(Top.commands)
Command == Top.commands[Top.it + 1]
AtToken(ts) == AtCommand /\ Command.kind = "Single" /\ Command.token \in ts
AtLoop == AtCommand /\ Command.kind = "Loop"
Testing == pc = "run" /\ stack # <<>> /\ Top.mode = "idle"

\* the State with the iterator moved past the command
Advance(f, s) == [f EXCEPT !.data = s.data, !.pointer = s.pointer, !.it = f.it + 1]

SetTop(f) == [stack EXCEPT ![Len(stack)] = f]

\* the State of a loop made new, with a tape of its own
CloneForLoopFresh(f, v) == Frame(StateNew(v), "idle")

\* lines 174-175: s = state.clone(); s.commands = v.clone()
CloneForLoop(f, v) == Frame([data |-> f.data, pointer |-> f.pointer, commands |-> v], "idle")

\* no copy back: the body ran on a tape of its own
CopyBackNothing(f, s) == f

\* the copy back without line 181
CopyBackDataOnly(f, s) == [f EXCEPT !.data = s.data]

\* lines 180-181: state.data = s.data.clone(); state.pointer = s.pointer
CopyBack(f, s) == [f EXCEPT !.data = s.data, !.pointer = s.pointer]

\* the test of a loop that runs its body before it looks at the cell
LoopConditionAlways(f) == Cell(f) # 0 \/ f.it >= 0

\* line 177: the test of the while loop, on the State that holds the loop
LoopCondition(f) == Cell(f) # 0

(***************************************************************************)
(* The programs that are run and the lines they read.                      *)
(***************************************************************************)
NamedPrograms ==
    { <<"+", "[", "-", "]">>,
      <<"+", "+", "+", ".">>,
      <<"+", " ", "+", "a", "+", ".">>,
      <<"+", "+", "+", "+", "+", "[", ">", "+", "+", "+", "+", "+", "<", "-", "]", ">", ".">>,
      <<"+", "+", "[", ">", "+", "+", "[", ">", "+", "<", "-", "]", "<", "-", "]">>,
      <<",", "[", ">", ",", "[", ".", "-", "]", "<", "-", "]">>,
      <<"[", ",", ".", "[", "-", "]", ">", "]", "+">>,
      <<"+", "[", ">", "+", "]">>,
      <<"-", "[", "<", "-", "]">>,
      <<"+", ">", "+", "<", "<", ">", ">", ".">>,
      <<"-", ".", "+", ".">>,
      <<"+", "[", ",", "]", "+", ".">>,
      <<"+", "[", "[", ",", "]", "+", "]">> }

RunTexts == StringsOver({<<c>> : c \in InstrChars}, MaxProg) \cup NamedPrograms

\* "", "\n", "0\n", "2\n", "+5\n", "a\n", "256\n", the euro sign and "\n"
RunLines ==
    { <<>>, <<10>>, <<48, 10>>, <<50, 10>>, <<43, 53, 10>>, <<97, 10>>,
      <<50, 53, 54, 10>>, <<8364, 10>> }

IsSpace(c) == c = " "
NotSpace(c) == ~IsSpace(c)

\* line 199
StripWhitespace(s) == SelectSeq(s, NotSpace)

Init ==
    /\ contents \in RunTexts
    /\ pc = "main"
    /\ result = NoResult
    /\ stack = <<>>
    /\ out = <<>>
    /\ line = <<>>
    /\ nread = 0
    /\ refData = <<0>>
    /\ refPointer = 0
    /\ refOut = <<>>
    /\ buffer = <<>>
    /\ tightData = <<0>>
    /\ tightPointer = 0
    /\ tightOut = <<>>

\* lines 199-203 of main
Main ==
    /\ pc = "main"
    /\ LET stripped == StripWhitespace(contents)
           parsed == parse(stripped)
       IN  /\ contents' = stripped
           /\ result' = parsed
           /\ IF parsed.tag = "Ok"
              THEN /\ stack' = <<Frame(StateNew(parsed.tree), "run")>>
                   /\ pc' = "run"
              ELSE /\ stack' = stack
                   /\ pc' = "panic"
    /\ UNCHANGED <<out, line, nread, refData, refPointer, refOut,
                   buffer, tightData, tightPointer, tightOut>>

RefState == [data |-> refData, pointer |-> refPointer, commands |-> <<>>]

\* the interpreter that grows the tape only at its end: pointer-right appends a
\* cell when the pointer is at the last cell, and only moves the pointer else
TightState == [data |-> tightData, pointer |-> tightPointer, commands |-> <<>>]

TightShiftRight(s) ==
    IF s.pointer = Len(s.data) - 1
    THEN [s EXCEPT !.data = Append(s.data, 0), !.pointer = s.pointer + 1]
    ELSE [s EXCEPT !.pointer = s.pointer + 1]

TightExecToken(t, s) == IF t = "ShiftRight" THEN TightShiftRight(s) ELSE ExecToken(t, s)

\* one tape instruction
StepTape ==
    /\ AtToken({"Increment", "Decrement", "ShiftLeft", "ShiftRight", "BeginLoop", "EndLoop"})
    /\ Grows(Command.token, Top) => Len(Top.data) < MaxTape
    /\ stack' = SetTop(Advance(Top, ExecToken(Command.token, Top)))
    /\ refData' = ExecToken(Command.token, RefState).data
    /\ refPointer' = ExecToken(Command.token, RefState).pointer
    /\ tightData' = TightExecToken(Command.token, TightState).data
    /\ tightPointer' = TightExecToken(Command.token, TightState).pointer
    /\ UNCHANGED <<contents, pc, result, out, line, nread, refOut, buffer, tightOut>>

\* read-input, the line read being any of lines
StepInputFrom(lines) ==
    /\ AtToken({"Input"})
    /\ nread < MaxReads
    /\ \E l \in lines :
        /\ line' = l
        /\ nread' = nread + 1
        /\ IF ExecInput(Top, l).panic
           THEN /\ pc' = "panic"
                /\ UNCHANGED <<stack, refData, tightData>>
           ELSE /\ pc' = pc
                /\ stack' = SetTop(Advance(Top, ExecInput(Top, l).state))
                /\ refData' = ExecInput(RefState, l).state.data
                /\ tightData' = ExecInput(TightState, l).state.data
    /\ UNCHANGED <<contents, result, out, refPointer, refOut, buffer, tightPointer, tightOut>>

StepInput == StepInputFrom(RunLines)

\* write-output: the cell is printed and stdout is flushed
StepOutput ==
    /\ AtToken({"Output"})
    /\ Len(out) < MaxOut
    /\ out' = StdoutFlush(StdoutPrint(Stdout, ExecOutput(Cell(Top)))).written
    /\ buffer' = StdoutFlush(StdoutPrint(Stdout, ExecOutput(Cell(Top)))).buffer
    /\ refOut' = refOut \o ExecOutput(Cell(RefState))
    /\ tightOut' = tightOut \o ExecOutput(Cell(TightState))
    /\ stack' = SetTop(Advance(Top, Top))
    /\ UNCHANGED <<contents, pc, result, line, nread, refData, refPointer,
                   tightData, tightPointer>>

\* lines 173-175: a Loop is reached; its State s is made
LoopClone ==
    /\ AtLoop
    /\ stack' = Append(stack, CloneForLoop(Top, Command.body))
    /\ UNCHANGED <<contents, pc, result, out, line, nread, refData, refPointer, refOut,
                   buffer, tightData, tightPointer, tightOut>>

\* lines 177-178: the test holds; run(&mut s) starts
LoopCall ==
    /\ Testing
    /\ LoopCondition(Caller)
    /\ stack' = SetTop([Top EXCEPT !.mode = "run", !.it = 0])
    /\ UNCHANGED <<contents, pc, result, out, line, nread, refData, refPointer, refOut,
                   buffer, tightData, tightPointer, tightOut>>

\* line 177: the test fails; the loop is left
LoopExit ==
    /\ Testing
    /\ ~LoopCondition(Caller)
    /\ stack' = [SubSeq(stack, 1, Len(stack) - 1) EXCEPT ![Len(stack) - 1].it = @ + 1]
    /\ UNCHANGED <<contents, pc, result, out, line, nread, refData, refPointer, refOut,
                   buffer, tightData, tightPointer, tightOut>>

\* lines 178-181: run(&mut s) returns; its tape and pointer are copied back
LoopReturn ==
    /\ Running
    /\ Top.it = Len(Top.commands)
    /\ Len(stack) > 1
    /\ stack' = [stack EXCEPT ![Len(stack) - 1] = CopyBack(Caller, Top),
                              ![Len(stack)].mode = "idle"]
    /\ UNCHANGED <<contents, pc, result, out, line, nread, refData, refPointer, refOut,
                   buffer, tightData, tightPointer, tightOut>>

\* line 204: the outermost run returns
Finish ==
    /\ Running
    /\ Top.it = Len(Top.commands)
    /\ Len(stack) = 1
    /\ pc' = "done"
    /\ UNCHANGED <<contents, result, stack, out, line, nread, refData, refPointer, refOut,
                   buffer, tightData, tightPointer, tightOut>>

Next ==
    \/ Main
    \/ StepTape
    \/ StepInput
    \/ StepOutput
    \/ LoopClone
    \/ LoopCall
    \/ LoopExit
    \/ LoopReturn
    \/ Finish

Spec == Init /\ [][Next]_vars

(***************************************************************************)
(* One read-input alone: the instruction "," on any small tape, the line   *)
(* read being any string of at most MaxLine chars over LineChars.          *)
(***************************************************************************)
\* "\n", " ", "+", "-", "0", "2", "5", "6", "a", the euro sign
LineChars == {<<10>>, <<32>>, <<43>>, <<45>>, <<48>>, <<50>>, <<53>>, <<54>>, <<97>>, <<8364>>}
Lines == StringsOver(LineChars, MaxLine)

InputTapes == {<<0>>, <<7, 255>>, <<255, 0, 7>>}

InitInput ==
    /\ contents = <<",">>
    /\ pc = "run"
    /\ result = parse(contents)
    /\ \E d \in InputTapes, p \in 0..2 :
        /\ p < Len(d)
        /\ stack = <<Frame([data |-> d, pointer |-> p, commands |-> result.tree], "run")>>
        /\ refData = d
        /\ refPointer = p
        /\ tightData = d
        /\ tightPointer = p
    /\ out = <<>>
    /\ line = <<>>
    /\ nread = 0
    /\ refOut = <<>>
    /\ buffer = <<>>
    /\ tightOut = <<>>

ReadInput == StepInputFrom(Lines)

SpecInput == InitInput /\ [][ReadInput]_vars

(***************************************************************************)
(* Definitions the properties are stated with.                             *)
(***************************************************************************)
TopOf(st) == st[Len(st)]

\* the text without its comment chars
StripComments(s) == SelectSeq(s, IsInstr)

IsCommentFree(s) == StripComments(s) = s

\* the brackets of s[p..q]: the number of "[" minus the number of "]"
Balance(s, p, q) ==
    Cardinality({k \in p..q : s[k] = "["}) - Cardinality({k \in p..q : s[k] = "]"})

\* the "[" at p has no matching "]" after it
UnmatchedOpenAt(s, p) == s[p] = "[" /\ \A q \in p..Len(s) : Balance(s, p, q) > 0

HasUnmatchedOpen(s) == \E p \in 1..Len(s) : UnmatchedOpenAt(s, p)

\* the "]" at p closes no "[" before it
StrayCloseAt(s, p) == s[p] = "]" /\ \A q \in 1..p : Balance(s, q, p) < 0

RemoveAt(s, p) == SubSeq(s, 1, p - 1) \o SubSeq(s, p + 1, Len(s))

(***************************************************************************)
(* The properties of parse, under SpecParse.                               *)
(***************************************************************************)
\* C1: parse gives for a text the outcome it gives for the text with every
\* char that is not one of the eight instruction symbols removed.
C1_CommentsAreDropped ==
    pc = "parsed" => result = parse(StripComments(contents))

\* C4: for a text with a "[" that no later "]" matches, parse yields the
\* MismatchedBrackets error (an Err), not a Program.
C4_UnmatchedOpenIsErr ==
    (pc = "parsed" /\ HasUnmatchedOpen(StripComments(contents))) => result.tag = "Err"

\* C5: parse never ends in a panic: it returns a Program or an Err, at the top
\* level and inside a nested loop body.
C5_ParseNeverPanics ==
    pc = "parsed" => result.tag \in {"Ok", "Err"}

\* C7: a "]" at the top level that closes no "[" is skipped: parse gives the
\* outcome it gives for the text without that "]", and it succeeds when the
\* brackets are otherwise matched.
C7_StrayCloseIsSkipped ==
    pc = "parsed" =>
        \A p \in 1..Len(contents) :
            StrayCloseAt(contents, p) =>
                /\ result = parse(RemoveAt(contents, p))
                /\ ~HasUnmatchedOpen(StripComments(contents)) => result.tag = "Ok"

\* the instruction symbol of a token
CharOf(t) ==
    CASE t = "Increment" -> "+"
      [] t = "Decrement" -> "-"
      [] t = "ShiftLeft" -> "<"
      [] t = "ShiftRight" -> ">"
      [] t = "Input" -> ","
      [] t = "Output" -> "."
      [] t = "BeginLoop" -> "["
      [] t = "EndLoop" -> "]"

\* a tree written back as its instruction sequence, a loop as "[" body "]"
RECURSIVE Serialize(_)
Serialize(tree) ==
    IF tree = <<>>
    THEN <<>>
    ELSE LET item == Head(tree)
         IN  (IF item.kind = "Loop"
              THEN <<"[">> \o Serialize(item.body) \o <<"]">>
              ELSE <<CharOf(item.token)>>) \o Serialize(Tail(tree))

\* every "]" closes a "[" before it and every "[" is closed
WellBracketed(s) ==
    /\ \A q \in 1..Len(s) : Balance(s, 1, q) >= 0
    /\ Balance(s, 1, Len(s)) = 0

\* a sequence of instruction symbols with matched brackets
IsProgramText(s) == IsCommentFree(s) /\ WellBracketed(s)

\* the tokens at the leaves of a tree, at any depth
RECURSIVE Leaves(_)
Leaves(tree) ==
    IF tree = <<>>
    THEN {}
    ELSE LET item == Head(tree)
         IN  (IF item.kind = "Loop" THEN Leaves(item.body) ELSE {item.token})
                 \cup Leaves(Tail(tree))

\* the number of Loop nodes in a tree, at any depth
RECURSIVE LoopCount(_)
LoopCount(tree) ==
    IF tree = <<>>
    THEN 0
    ELSE LET item == Head(tree)
         IN  (IF item.kind = "Loop" THEN 1 + LoopCount(item.body) ELSE 0)
                 + LoopCount(Tail(tree))

\* C17: for a well-bracketed instruction sequence parse succeeds, and parsing
\* the serialized tree gives a tree equal to the first one.
C17_ParseIsIdempotent ==
    (pc = "parsed" /\ IsProgramText(contents)) =>
        /\ result.tag = "Ok"
        /\ parse(Serialize(result.tree)) = result

\* a loop followed by two instructions has been parsed
C17_Witness ==
    /\ pc = "parsed"
    /\ contents = <<"[", "]", "+", "+">>
    /\ result = Ok(<<Loop(<<>>), Single("Increment"), Single("Increment")>>)

\* C18: for a well-bracketed instruction sequence parse succeeds and the tree
\* written back, each loop as "[" body "]", is the input: every token is in the
\* tree once, each loop's body is what stands between its brackets, and the
\* scan goes on right after the closing bracket.
C18_TreeFlattensToInput ==
    (pc = "parsed" /\ IsProgramText(contents)) =>
        /\ result.tag = "Ok"
        /\ Serialize(result.tree) = contents
        /\ LoopCount(result.tree) = Cardinality({k \in 1..Len(contents) : contents[k] = "["})

\* a loop in a loop, with an instruction after the inner one, has been parsed
C18_Witness ==
    /\ pc = "parsed"
    /\ contents = <<"[", "[", "]", "+", "]", "+">>
    /\ result = Ok(<<Loop(<<Loop(<<>>), Single("Increment")>>), Single("Increment")>>)

\* C19: in a Program that parse returns, for any text, every leaf of the tree
\* at any depth is one of the six instructions that are not brackets.
C19_NoBracketLeaf ==
    (pc = "parsed" /\ result.tag = "Ok") =>
        Leaves(result.tree) \subseteq (Token \ {"BeginLoop", "EndLoop"})

\* a text with a comment, a loop and a stray closing bracket has been parsed
C19_Witness ==
    /\ pc = "parsed"
    /\ contents = <<"]", "[", "+", "]", "]", "a">>
    /\ result = Ok(<<Loop(<<Single("Increment")>>)>>)

(***************************************************************************)
(* The properties of run, under Spec.                                      *)
(***************************************************************************)
\* the State that the code is working on: the one run is called on, or
\* between two calls the one that holds the loop
ActiveState == IF Top.mode = "run" THEN Top ELSE Caller

\* C2: run, which works on a clone of the State inside a loop, is in step with
\* the reference interpreter, which runs every instruction (loop bodies too) on
\* one live tape: the cells, the pointer and the output are equal at every
\* step, so in every loop test and after every Loop.
C2_LoopRunsOnLiveTape ==
    stack # <<>> =>
        /\ ActiveState.data = refData
        /\ ActiveState.pointer = refPointer
        /\ out = refOut

\* two nested loops have run: 2 * 2 is in the third cell
C2_Witness ==
    /\ pc = "done"
    /\ contents = <<"+", "+", "[", ">", "+", "+", "[", ">", "+", "<", "-", "]", "<", "-", "]">>
    /\ Top.pointer = 0
    /\ Top.data[1] = 0
    /\ Top.data[3] = 4
    /\ refData[3] = 4

\* C3: the pointer is a valid index into the tape, in every State and after
\* every instruction.
C3_PointerIsValid ==
    \A k \in 1..Len(stack) :
        /\ stack[k].pointer >= 0
        /\ stack[k].pointer < Len(stack[k].data)

\* the pointer has been moved at both ends of the tape
C3_Witness ==
    /\ pc = "done"
    /\ contents = <<"<", ">", ">", ">">>
    /\ Top.pointer = 3
    /\ Len(Top.data) = 5

\* C6: pointer-right with the pointer not at the last cell leaves the length
\* of the tape and the cells unchanged and moves the pointer by 1.
C6_ShiftRightGrowsOnlyAtEnd ==
    [][(AtToken({"ShiftRight"}) /\ Top.pointer < Len(Top.data) - 1) =>
          /\ TopOf(stack').data = Top.data
          /\ TopOf(stack').pointer = Top.pointer + 1]_vars

\* C8: pointer-left with the pointer at 0 does not fail, leaves the pointer at
\* 0 and makes the tape one cell longer, cell 0 holding 0 and every old cell i
\* being cell i + 1; with the pointer above 0 it moves the pointer by 1 and
\* leaves the tape as it is.
C8_ShiftLeft ==
    [][AtToken({"ShiftLeft"}) =>
          LET f == Top
              g == TopOf(stack')
          IN  /\ pc' = "run"
              /\ Len(stack') = Len(stack)
              /\ f.pointer = 0 =>
                    /\ g.pointer = 0
                    /\ Len(g.data) = Len(f.data) + 1
                    /\ g.data[1] = 0
                    /\ \A i \in 1..Len(f.data) : g.data[i + 1] = f.data[i]
              /\ f.pointer > 0 =>
                    /\ g.pointer = f.pointer - 1
                    /\ g.data = f.data]_vars

\* pointer-left has been run with the pointer above 0 and then at 0, the tape
\* holding a cell that is not 0
C8_Witness ==
    /\ pc = "done"
    /\ contents = <<">", "+", "<", "<">>
    /\ Top.pointer = 0
    /\ Top.data = <<0, 0, 1>>

\* C9: a Loop reached with the current cell at 0 runs its body zero times: the
\* step that reaches it and the test that follows leave the tape, the pointer,
\* the output and the input as they are, and the test leaves the loop.
C9_ZeroLoopIsSkipped ==
    [][/\ (AtLoop /\ Cell(Top) = 0) =>
              /\ Len(stack') = Len(stack) + 1
              /\ stack'[Len(stack)] = Top
              /\ TopOf(stack').mode = "idle"
              /\ out' = out /\ nread' = nread /\ pc' = pc
       /\ (Testing /\ Cell(Caller) = 0) =>
              /\ Len(stack') = Len(stack) - 1
              /\ TopOf(stack').data = Caller.data
              /\ TopOf(stack').pointer = Caller.pointer
              /\ TopOf(stack').it = Caller.it + 1
              /\ out' = out /\ nread' = nread /\ pc' = pc]_vars

\* a loop whose body reads, writes and holds a loop was reached with the cell
\* at 0, and the program has gone on after it
C9_Witness ==
    /\ pc = "done"
    /\ contents = <<"[", ",", ".", "[", "-", "]", ">", "]", "+">>
    /\ Top.data = <<1>>
    /\ Top.pointer = 0
    /\ out = <<>>
    /\ nread = 0

(***************************************************************************)
(* The properties of read-input, under SpecInput.                          *)
(***************************************************************************)
\* the line without the whitespace at its two ends
Trimmed(l) ==
    LET ks == {k \in 1..Len(l) : ~IsWhitespace(l[k])}
    IN  IF ks = {} THEN <<>>
        ELSE SubSeq(l, CHOOSE k \in ks : \A j \in ks : k <= j,
                       CHOOSE k \in ks : \A j \in ks : k >= j)

\* the number that the decimal digits of t from place k on add up to
RECURSIVE PlaceSum(_, _)
PlaceSum(t, k) ==
    IF k > Len(t) THEN 0 ELSE (t[k] - 48) * 10 ^ (Len(t) - k) + PlaceSum(t, k + 1)

\* t is a string of decimal digits that denotes n
Denotes(t, n) ==
    /\ t # <<>>
    /\ \A k \in 1..Len(t) : t[k] \in 48..57
    /\ PlaceSum(t, 1) = n

\* t is an unsigned integer in 0..255: a string of digits
IsUnsignedByte(t) ==
    /\ t # <<>>
    /\ \A k \in 1..Len(t) : t[k] \in 48..57
    /\ PlaceSum(t, 1) \in 0..255

\* t is a string of digits after at most one "+" sign, in 0..255
IsSignedByte(t) == IsUnsignedByte(t) \/ (t # <<>> /\ t[1] = 43 /\ IsUnsignedByte(Tail(t)))

\* what a read-input that does not fail leaves alone: the other cells, the
\* length of the tape and the pointer
InputFrame(f, g) ==
    /\ g.pointer = f.pointer
    /\ Len(g.data) = Len(f.data)
    /\ \A i \in 1..Len(f.data) : i # f.pointer + 1 => g.data[i] = f.data[i]

\* C10 as stated: the cell becomes the value of the trimmed line when that is
\* an unsigned integer in 0..255, and else the code point of its first char
\* mod 256 when it is not empty; nothing else changes.
C10_AsStated ==
    [][(AtToken({"Input"}) /\ Trimmed(line') # <<>>) =>
          LET t == Trimmed(line')
              g == TopOf(stack')
          IN  /\ pc' = "run"
              /\ InputFrame(Top, g)
              /\ IsUnsignedByte(t) => Denotes(t, Cell(g))
              /\ ~IsUnsignedByte(t) => Cell(g) = t[1] % 256]_vars

\* C10, amended: as stated, with the digits of the integer allowed one "+"
\* sign before them ("+5" is read as 5, not as the code point 43 of "+").
C10_ReadInput ==
    [][(AtToken({"Input"}) /\ Trimmed(line') # <<>>) =>
          LET t == Trimmed(line')
              g == TopOf(stack')
          IN  /\ pc' = "run"
              /\ InputFrame(Top, g)
              /\ IsUnsignedByte(t) => Denotes(t, Cell(g))
              /\ (~IsUnsignedByte(t) /\ IsSignedByte(t)) => Denotes(Tail(t), Cell(g))
              /\ ~IsSignedByte(t) => Cell(g) = t[1] % 256]_vars

\* "256" has been read into the second cell of a tape of three: the cell holds
\* the code point of "2"
C10_Witness ==
    /\ pc = "run"
    /\ Top.it = 1
    /\ line = <<50, 53, 54>>
    /\ Top.data = <<255, 50, 7>>
    /\ Top.pointer = 1

(***************************************************************************)
(* The properties of read-input and write-output inside a run, under Spec. *)
(***************************************************************************)
\* C11: a read-input whose line is empty once trimmed fails the run there: the
\* run is in its failed state with the tape and the output as they were, and
\* from the failed state no instruction at any depth runs and nothing changes.
C11_EmptyLineStopsRun ==
    [][/\ (AtToken({"Input"}) /\ Trimmed(line') = <<>>) =>
              /\ pc' = "panic"
              /\ stack' = stack
              /\ out' = out
       /\ pc = "panic" => UNCHANGED vars]_vars

\* the run has failed on an empty line inside a loop, with the rest of the
\* loop body and of the program not run
C11_Witness ==
    /\ pc = "panic"
    /\ contents = <<"+", "[", "[", ",", "]", "+", "]">>
    /\ Len(stack) = 3
    /\ line = <<10>>
    /\ Top.it = 0
    /\ Top.data = <<1>>
    /\ out = <<>>

\* C12: write-output appends one byte to stdout, equal to the current cell,
\* whatever the cell holds, and leaves the tape and the pointer as they are.
C12_OutputIsOneByte ==
    [][AtToken({"Output"}) =>
          /\ out' = Append(out, Cell(Top))
          /\ TopOf(stack').data = Top.data
          /\ TopOf(stack').pointer = Top.pointer]_vars

\* C13: when a read-input is about to block for its line, every byte that a
\* write-output has printed is written: nothing is left in the buffer of
\* stdout.
C13_OutputFlushedBeforeRead ==
    (stack # <<>> /\ AtToken({"Input"})) =>
        buffer = <<>>

\* a read-input is reached after a write-output of the cell 1
C13_Witness ==
    /\ stack # <<>>
    /\ AtToken({"Input"})
    /\ contents = <<"+", ".", ",">>
    /\ out = <<1>>

(***************************************************************************)
(* Wrap-around: the program of U8Max + 1 increment-cells, and the one of   *)
(* U8Max + 1 decrement-cells, on a tape of two cells that both hold v, for *)
(* every byte v; the second cell keeps v.  The tree is the one parse gives  *)
(* for a text without brackets: one Single per char.                       *)
(***************************************************************************)
Repeat(c) == [k \in 1..(U8Max + 1) |-> c]

InitWrap ==
    /\ contents \in {Repeat("+"), Repeat("-")}
    /\ pc = "run"
    /\ result = Ok([k \in 1..Len(contents) |-> Single(TokenOf(contents[k]))])
    /\ \E v \in 0..U8Max :
        /\ stack = <<Frame([data |-> <<v, v>>, pointer |-> 0, commands |-> result.tree], "run")>>
        /\ refData = <<v, v>>
        /\ tightData = <<v, v>>
    /\ refPointer = 0
    /\ tightPointer = 0
    /\ out = <<>>
    /\ line = <<>>
    /\ nread = 0
    /\ refOut = <<>>
    /\ buffer = <<>>
    /\ tightOut = <<>>

NextWrap ==
    \/ StepTape
    \/ Finish

SpecWrap == InitWrap /\ [][NextWrap]_vars

\* C14: after k increment-cells a cell that held v holds v + k mod 256, and
\* after k decrement-cells v - k mod 256, so 255 is followed by 0 and 0 by 255;
\* after 256 of either it holds v again; the run never fails.
C14_WrapAround ==
    /\ pc \in {"run", "done"}
    /\ Top.pointer = 0
    /\ contents[1] = "+" => Top.data[1] = (Top.data[2] + Top.it) % 256
    /\ contents[1] = "-" => Top.data[1] = (Top.data[2] - Top.it) % 256
    /\ Top.it = 256 => Top.data[1] = Top.data[2]

\* 256 increment-cells have run on a cell that held 200: it has passed 255 and
\* 0 and holds 200 again
C14_Witness ==
    /\ pc = "done"
    /\ contents[1] = "+"
    /\ Top.it = 256
    /\ Top.data = <<200, 200>>

\* C20: run, in step with the interpreter that appends a cell only when the
\* pointer is at the last cell: the pointers are equal, run's tape is the
\* other's tape followed by cells holding 0, the outputs are equal, and the
\* current cells are equal, so every loop test and the end of the run agree.
C20_SameAsAppendAtEnd ==
    stack # <<>> =>
        /\ ActiveState.pointer = tightPointer
        /\ tightPointer < Len(tightData)
        /\ Len(tightData) <= Len(ActiveState.data)
        /\ \A i \in 1..Len(ActiveState.data) :
              ActiveState.data[i] = IF i <= Len(tightData) THEN tightData[i] ELSE 0
        /\ Cell(ActiveState) = Cell(TightState)
        /\ out = tightOut

\* pointer-right has run twice with the pointer not at the last cell: run's
\* tape has two cells more than the other's
C20_Witness ==
    /\ pc = "done"
    /\ contents = <<"+", ">", "+", "<", "<", ">", ">", ".">>
    /\ Top.data = <<0, 1, 1, 0, 0>>
    /\ tightData = <<0, 1, 1>>
    /\ Top.pointer = 2
    /\ out = <<1>>

(***************************************************************************)
(* Whole runs of the named programs.  The process is alone and nothing     *)
(* but a read-input blocks it: a step that can be taken is taken.          *)
(***************************************************************************)
InitEnd ==
    /\ contents \in NamedPrograms
    /\ pc = "main"
    /\ result = NoResult
    /\ stack = <<>>
    /\ out = <<>>
    /\ line = <<>>
    /\ nread = 0
    /\ refData = <<0>>
    /\ refPointer = 0
    /\ refOut = <<>>
    /\ buffer = <<>>
    /\ tightData = <<0>>
    /\ tightPointer = 0
    /\ tightOut = <<>>

(* main calls parse and run unconditionally (lines 201-204), so the run    *)
(* leaves "main"; every step of run other than a read-input is a step of  *)
(* straight-line code and is taken.  A read-input may block forever.      *)
Computes ==
    \/ StepTape
    \/ StepOutput
    \/ LoopClone
    \/ LoopCall
    \/ LoopExit
    \/ LoopReturn
    \/ Finish

SpecEnd ==
    /\ InitEnd
    /\ [][Next]_vars
    /\ WF_vars(Computes)
    /\ <>(pc # "main")

ClearLoop == <<"+", "[", "-", "]">>
FiveTimesFive ==
    <<"+", "+", "+", "+", "+", "[", ">", "+", "+", "+", "+", "+", "<", "-", "]", ">", ".">>
ThreePlus == <<"+", "+", "+", ".">>

\* C15: the run of +[-] ends, with the current cell at 0; the body of the loop
\* runs (the state after its decrement of 1 to 0 is reached) and runs once (the
\* loop test holds only before the body has run).
C15_ClearLoopTerminates ==
    /\ [](contents = ClearLoop /\ Testing /\ LoopCondition(Caller) =>
              Top.data = <<1>> /\ Caller.data = <<1>>)
    /\ (pc = "main" /\ contents = ClearLoop) ~>
           (Len(stack) = 2 /\ Top.mode = "run" /\ Top.it = 1 /\ Top.data = <<0>>)
    /\ (pc = "main" /\ contents = ClearLoop) ~>
           (pc = "done" /\ Top.data = <<0>> /\ Top.pointer = 0)

\* the run of +[-] has ended with the cell at 0
C15_Witness ==
    /\ pc = "done"
    /\ contents = ClearLoop
    /\ Top.data = <<0>>
    /\ out = <<>>

\* C16: the run of +++++[>+++++<-]>. ends and its whole output is the one char
\* 25; the run of +++. ends and its whole output is the one char 3.
C16_EndToEnd ==
    /\ (pc = "main" /\ contents = FiveTimesFive) ~> (pc = "done" /\ out = <<25>>)
    /\ (pc = "main" /\ contents = ThreePlus) ~> (pc = "done" /\ out = <<3>>)

\* the run of +++++[>+++++<-]>. has ended: 25 is in the second cell and written
C16_Witness ==
    /\ pc = "done"
    /\ contents = FiveTimesFive
    /\ Top.pointer = 1
    /\ Top.data[2] = 25
    /\ out = <<25>>

====
